---- MODULE Spec2Model ----
(***************************************************************************)
(* Model of menblox/devsec-api: the FastAPI routes of app/main.py over the *)
(* users and posts tables (app/models.py), and the password / token        *)
(* functions of app/auth.py (passlib CryptContext, python-jose jwt).       *)
(* Time is counted in whole seconds, the resolution of the exp claim.      *)
(***************************************************************************)
EXTENDS Integers, Sequences, FiniteSets, TLC

VARIABLES users, posts, now, req, resp, inflight

vars == <<users, posts, now, req, resp, inflight>>

----------------------------------------------------------------------------
(* Bounds of the model *)

MaxUsers == 2
MaxPosts == 2
MaxSkew == 1
MaxRequests == 2

(* Request inputs *)
Names == {"Jame", "jame"}
Ages == {14}
Passwords == {"qwerty", "wrong"}
Titles == {"test_1"}
Bodies == {"text_2"}
AuthorIds == 1..(MaxUsers + 1)

(* app/config.py *)
ACCESS_TOKEN_EXPIRE_MINUTES == 30
SECRET_KEY == "secret"
ALGORITHM == "HS256"

OtherKeys == {"not-the-secret"}
OtherAlgs == {"none"}

DefaultLifetime == 60 * ACCESS_TOKEN_EXPIRE_MINUTES

(* Instants at which the clock is read *)
Times == {b + k : b \in {0, DefaultLifetime}, k \in 0..MaxSkew}
            \cup {DefaultLifetime - 1}

(* expires_delta: <<>> is None, <<d>> is timedelta(seconds=d) *)
Deltas == {<< >>} \cup {<<d>> : d \in {-1, 0, 1}}

----------------------------------------------------------------------------
(* JSON / Python values carried by a claims mapping *)

Absent == [type |-> "absent", s |-> "", n |-> 0]
Null == [type |-> "null", s |-> "", n |-> 0]
Str(x) == [type |-> "str", s |-> x, n |-> 0]
Int_(x) == [type |-> "int", s |-> "", n |-> x]
Datetime(x) == [type |-> "datetime", s |-> "", n |-> x]

ClaimKeys == {"sub", "exp", "role"}

SubValues == {Absent, Int_(7)} \cup {Str(x) : x \in Names}
RoleValues == {Absent, Str("admin")}

(* claims mappings a caller hands to create_access_token *)
CallerClaims ==
    {[sub |-> s, exp |-> e, role |-> r] :
        s \in {Absent, Int_(7), Str("Jame")},
        e \in {Absent, Int_(0)},
        r \in RoleValues}

(* claims found in the payload of a presented token *)
PayloadClaims ==
    {[sub |-> s, exp |-> e, role |-> Absent] :
        s \in SubValues,
        e \in {Absent, Null} \cup {Int_(t) : t \in Times}}

(* payloads put under a wrong algorithm, a wrong key or a broken signature *)
ForgedClaims ==
    {[sub |-> Str("Jame"), exp |-> e, role |-> Absent] :
        e \in {Absent, Int_(DefaultLifetime + MaxSkew)}}

NoClaims == [sub |-> Absent, exp |-> Absent, role |-> Absent]

----------------------------------------------------------------------------
(* Tokens: header algorithm, payload, and the key the signature segment    *)
(* was computed with; intact = FALSE is a signature segment with a byte    *)
(* flipped; wellformed = FALSE is a string that is not three segments.     *)

Garbage ==
    [wellformed |-> FALSE, alg |-> "", key |-> "", intact |-> FALSE,
     claims |-> NoClaims]

SignedToken(a, k, i, c) ==
    [wellformed |-> TRUE, alg |-> a, key |-> k, intact |-> i, claims |-> c]

PresentedTokens ==
    {Garbage}
        \cup {SignedToken(ALGORITHM, SECRET_KEY, TRUE, c) : c \in PayloadClaims}
        \cup {SignedToken(a, k, i, c) :
                 a \in {ALGORITHM} \cup OtherAlgs,
                 k \in {SECRET_KEY} \cup OtherKeys,
                 i \in BOOLEAN,
                 c \in ForgedClaims}

----------------------------------------------------------------------------
(* app/auth.py: Credential Hasher.  A bcrypt hash is modelled by the       *)
(* password it was computed from; the salt plays no part in verification.  *)

(* pwd_context.verify answers False for a hash of None.                    *)

get_password_hash(password) == [type |-> "bcrypt", s |-> password, n |-> 0]

verify_password(plain_password, hashed_password) ==
    /\ hashed_password.type = "bcrypt"
    /\ hashed_password.s = plain_password

----------------------------------------------------------------------------
(* python-jose, as app/auth.py calls it *)

(* jwt.encode: a datetime exp is replaced by its whole-second timestamp,   *)
(* then the mapping is serialised and signed with key under algorithm.     *)
jwt_encode(claims, key, algorithm) ==
    [wellformed |-> TRUE, alg |-> algorithm, key |-> key, intact |-> TRUE,
     claims |-> [k \in ClaimKeys |->
                    IF k = "exp" /\ claims[k].type = "datetime"
                    THEN Int_(claims[k].n)
                    ELSE claims[k]]]

(* jwt.decode(token, key, algorithms) read at clock instant t.             *)
(* err: "" on success, else the exception class raised.                    *)
Failure(e) == [err |-> e, claims |-> NoClaims]

jwt_decode(token, key, algorithms, t) ==
    IF ~token.wellformed THEN Failure("JWTError")
    ELSE IF token.alg \notin algorithms THEN Failure("JWTError")
    ELSE IF ~(token.key = key /\ token.intact) THEN Failure("JWTError")
    ELSE LET c == token.claims IN
         IF c.exp.type = "null" THEN Failure("TypeError")
         ELSE IF c.exp.type = "int" /\ c.exp.n < t
              THEN Failure("ExpiredSignatureError")
         ELSE IF c.sub.type \notin {"absent", "str"}
              THEN Failure("JWTClaimsError")
         ELSE [err |-> "", claims |-> c]

(* ExpiredSignatureError and JWTClaimsError are subclasses of JWTError *)
IsJWTError(e) == e \in {"JWTError", "ExpiredSignatureError", "JWTClaimsError"}

----------------------------------------------------------------------------
(* app/auth.py: Token Codec and Authenticate *)

(* create_access_token augmenting the caller's mapping in place (no copy): *)
(* jwt.encode then leaves the whole-second exp in it.                      *)
create_access_token_in_place(data, expires_delta, t) ==
    LET token_time == IF expires_delta = << >>
                      THEN t + 60 * ACCESS_TOKEN_EXPIRE_MINUTES
                      ELSE t + expires_delta[1]
        data_aug == [data EXCEPT !["exp"] = Datetime(token_time)]
    IN  [token |-> jwt_encode(data_aug, SECRET_KEY, ALGORITHM),
         data |-> [data EXCEPT !["exp"] = Int_(token_time)]]

(* create_access_token keeping an exp the caller supplied (setdefault) *)
create_access_token_keeps_exp(data, expires_delta, t) ==
    LET token_time == IF expires_delta = << >>
                      THEN t + 60 * ACCESS_TOKEN_EXPIRE_MINUTES
                      ELSE t + expires_delta[1]
        data_copy == IF data["exp"].type = "absent"
                     THEN [data EXCEPT !["exp"] = Datetime(token_time)]
                     ELSE data
    IN  [token |-> jwt_encode(data_copy, SECRET_KEY, ALGORITHM),
         data |-> data]

(* The result holds the token and the caller's mapping as the call leaves  *)
(* it: data_copy is a deep copy, so data itself is not written.            *)
create_access_token(data, expires_delta, t) ==
    LET token_time == IF expires_delta = << >>
                      THEN t + 60 * ACCESS_TOKEN_EXPIRE_MINUTES
                      ELSE t + expires_delta[1]
        data_copy == [data EXCEPT !["exp"] = Datetime(token_time)]
    IN  [token |-> jwt_encode(data_copy, SECRET_KEY, ALGORITHM),
         data |-> data]

(* Outcome of verify_token read at clock instant t: status 200 with the    *)
(* Name_JWT name, 401 with the HTTPException detail, or 500 when an        *)
(* exception that is not a JWTError leaves the function.                   *)
verify_token(token, t) ==
    LET token_decode == jwt_decode(token, SECRET_KEY, {ALGORITHM}, t)
        name_jwt == token_decode.claims.sub
    IN  IF token_decode.err = ""
        THEN IF name_jwt.type = "absent"
             THEN [status |-> 401, detail |-> "Token is not valid!", name |-> ""]
             ELSE [status |-> 200, detail |-> "", name |-> name_jwt.s]
        ELSE IF IsJWTError(token_decode.err)
             THEN [status |-> 401, detail |-> "Could not validate credentials",
                   name |-> ""]
             ELSE [status |-> 500, detail |-> token_decode.err, name |-> ""]

----------------------------------------------------------------------------
(* app/models.py: the mapped classes.  A row is a function on the columns  *)
(* of its table; a column no keyword set is NULL.                          *)

UserColumns == {"id", "name", "age"}
PostColumns == {"id", "title", "body", "author_id"}

NULL == [type |-> "null", s |-> "", n |-> 0]

(* The declarative constructor: a keyword that is not an attribute of the  *)
(* mapped class raises TypeError; otherwise each keyword is set.           *)
User(kwargs) ==
    [raised |-> ~(DOMAIN kwargs \subseteq UserColumns),
     row |-> [c \in UserColumns |->
                 IF c \in DOMAIN kwargs THEN kwargs[c] ELSE NULL]]

Post(kwargs) ==
    [raised |-> ~(DOMAIN kwargs \subseteq PostColumns),
     row |-> [c \in PostColumns |->
                 IF c \in DOMAIN kwargs THEN kwargs[c] ELSE NULL]]

(* db.add + db.commit + db.refresh: the integer primary key is assigned    *)
(* by the table, one more than the largest id (rows are never deleted).    *)
Insert(table, row) == Append(table, [row EXCEPT !["id"] = Len(table) + 1])

(* db.query(User).filter(User.name == name).first() as a sequence of 0/1 row *)
RowsWhere(table, col, v) == SelectSeq(table, LAMBDA r : r[col] = v)

First(rows) == IF rows = << >> THEN << >> ELSE <<rows[1]>>

(* app/db.py response models: only the declared fields are serialised *)
DbUser(row) == [id |-> row.id, name |-> row.name, age |-> row.age]

PostResponse(row, table) ==
    [id |-> row.id, title |-> row.title, body |-> row.body,
     author_id |-> row.author_id,
     author |-> DbUser(RowsWhere(table, "id", row.author_id)[1])]

Token(access_token, token_type) ==
    [access_token |-> access_token, token_type |-> token_type]

----------------------------------------------------------------------------
(* Requests and responses.  Every record has every field, so that any two  *)
(* can be compared; a field an operation does not use keeps its default.   *)
(* at is the clock reading of the call, for the calls that read the clock. *)

NoReq ==
    [op |-> "", name |-> "", age |-> 0, password |-> "", title |-> "",
     body |-> "", author_id |-> 0, id |-> 0, data |-> NoClaims,
     expires_delta |-> << >>, token |-> Garbage, at |-> 0]

NoResp ==
    [status |-> 0, detail |-> "", profile |-> << >>, post |-> << >>,
     users |-> << >>, posts |-> << >>, token |-> << >>, name |-> "",
     data |-> NoClaims]

HTTPException(status_code, detail) ==
    [NoResp EXCEPT !.status = status_code, !.detail = detail]

(* an exception no handler catches: FastAPI answers 500 *)
Unhandled(exception) ==
    [NoResp EXCEPT !.status = 500, !.detail = exception]

----------------------------------------------------------------------------
(* Register requests being served side by side (worker processes sharing  *)
(* the database): where each stands in register_users, its body, the row   *)
(* its lookup returned and its response.                                   *)
Requests == 1..MaxRequests

Idle ==
    [pc |-> "idle", name |-> "", age |-> 0, password |-> "",
     db_user |-> << >>, resp |-> NoResp]

(* The state after construction: empty tables (Base.metadata.create_all),  *)
(* no request served yet.                                                  *)

Init ==
    /\ users = << >>
    /\ posts = << >>
    /\ now = 0
    /\ req = NoReq
    /\ resp = NoResp
    /\ inflight = [r \in Requests |-> Idle]

(* The clock moves on between two readings of datetime.utcnow() *)
Tick ==
    /\ \E t \in Times : t > now /\ now' = t
    /\ UNCHANGED <<users, posts, req, resp, inflight>>

----------------------------------------------------------------------------
(* app/main.py: the routes *)

(* POST /users/ *)
create_user ==
    \E name \in Names, age \in Ages :
        LET db_user == User([name |-> name, age |-> age]) IN
        /\ Len(users) < MaxUsers
        /\ req' = [NoReq EXCEPT !.op = "create_user", !.name = name, !.age = age]
        /\ users' = Insert(users, db_user.row)
        /\ resp' = [NoResp EXCEPT !.status = 200,
                       !.profile = <<DbUser(users'[Len(users')])>>]
        /\ UNCHANGED <<posts, now, inflight>>

(* POST /posts/ without the lookup of the author *)
create_post_unchecked ==
    \E title \in Titles, body \in Bodies, author_id \in AuthorIds :
        LET db_post == Post([title |-> title, body |-> body,
                             author_id |-> author_id])
        IN
        /\ req' = [NoReq EXCEPT !.op = "create_post", !.title = title,
                      !.body = body, !.author_id = author_id]
        /\ Len(posts) < MaxPosts
        /\ posts' = Insert(posts, db_post.row)
        /\ resp' = [NoResp EXCEPT !.status = 200]
        /\ UNCHANGED <<users, now, inflight>>

(* POST /posts/ *)
create_post ==
    \E title \in Titles, body \in Bodies, author_id \in AuthorIds :
        LET db_user == First(RowsWhere(users, "id", author_id))
            db_post == Post([title |-> title, body |-> body,
                             author_id |-> author_id])
        IN
        /\ req' = [NoReq EXCEPT !.op = "create_post", !.title = title,
                      !.body = body, !.author_id = author_id]
        /\ IF db_user = << >>
           THEN /\ resp' = HTTPException(404, "User not found")
                /\ UNCHANGED posts
           ELSE /\ Len(posts) < MaxPosts
                /\ posts' = Insert(posts, db_post.row)
                /\ resp' = [NoResp EXCEPT !.status = 200,
                               !.post = <<PostResponse(posts'[Len(posts')], users)>>]
        /\ UNCHANGED <<users, now, inflight>>

(* POST /register/ *)
register_users ==
    \E name \in Names, age \in Ages, password \in Passwords :
        LET db_user == First(RowsWhere(users, "name", name))
            hash_user_password == get_password_hash(password)
            db_user_hash == User([name |-> name, age |-> age,
                                  hash_password |-> hash_user_password])
        IN
        /\ req' = [NoReq EXCEPT !.op = "register_users", !.name = name,
                      !.age = age, !.password = password]
        /\ IF db_user # << >>
           THEN /\ resp' = HTTPException(409, "Name Taken!")
                /\ UNCHANGED users
           ELSE IF db_user_hash.raised
           THEN /\ resp' = Unhandled("TypeError")
                /\ UNCHANGED users
           ELSE /\ Len(users) < MaxUsers
                /\ users' = Insert(users, db_user_hash.row)
                /\ resp' = [NoResp EXCEPT !.status = 200,
                               !.profile = <<DbUser(users'[Len(users')])>>]
        /\ UNCHANGED <<posts, now, inflight>>

(* POST /token/ *)
login_token ==
    \E username \in Names, password \in Passwords :
        LET db_user == First(RowsWhere(users, "name", username)) IN
        /\ req' = [NoReq EXCEPT !.op = "login_token", !.name = username,
                      !.password = password, !.at = now]
        /\ resp' =
             IF db_user = << >>
             THEN HTTPException(401, "Unauthorized")
             ELSE IF "hash_password" \notin DOMAIN db_user[1]
             THEN Unhandled("AttributeError")
             ELSE IF verify_password(password, db_user[1]["hash_password"])
             THEN LET user == [NoClaims EXCEPT !.sub = Str(db_user[1].name)]
                      token == create_access_token(
                                   user, <<60 * ACCESS_TOKEN_EXPIRE_MINUTES>>,
                                   now).token
                  IN [NoResp EXCEPT !.status = 200,
                         !.token = <<Token(token, "bearer")>>]
             ELSE HTTPException(401, "Unauthorized")
        /\ UNCHANGED <<users, posts, now, inflight>>

(* GET /posts/ *)
get_posts ==
    /\ req' = [NoReq EXCEPT !.op = "posts"]
    /\ resp' = [NoResp EXCEPT !.status = 200,
                   !.posts = [i \in 1..Len(posts) |-> PostResponse(posts[i], users)]]
    /\ UNCHANGED <<users, posts, now, inflight>>

(* GET /users/ *)
get_users ==
    /\ req' = [NoReq EXCEPT !.op = "users"]
    /\ resp' = [NoResp EXCEPT !.status = 200,
                   !.users = [i \in 1..Len(users) |-> DbUser(users[i])]]
    /\ UNCHANGED <<users, posts, now, inflight>>

(* GET /users/{id} *)
users_id ==
    \E id \in AuthorIds :
        LET db_user == First(RowsWhere(users, "id", id)) IN
        /\ req' = [NoReq EXCEPT !.op = "users_id", !.id = id]
        /\ resp' = IF db_user = << >>
                   THEN HTTPException(404, "User not found")
                   ELSE [NoResp EXCEPT !.status = 200, !.name = db_user[1].name]
        /\ UNCHANGED <<users, posts, now, inflight>>

(* GET /user/{id_user}/post/ *)
seak_post_id_user ==
    \E id_user \in AuthorIds :
        LET db_post == RowsWhere(posts, "author_id", id_user) IN
        /\ req' = [NoReq EXCEPT !.op = "seak_post_id_user", !.id = id_user]
        /\ resp' = IF db_post = << >>
                   THEN HTTPException(404, "Post not found")
                   ELSE [NoResp EXCEPT !.status = 200,
                            !.posts = [i \in 1..Len(db_post) |->
                                          PostResponse(db_post[i], users)]]
        /\ UNCHANGED <<users, posts, now, inflight>>

----------------------------------------------------------------------------
(* app/auth.py called directly: the Token Codec's encode, and Authenticate *)

Encode ==
    \E data \in CallerClaims, expires_delta \in Deltas :
        LET r == create_access_token(data, expires_delta, now) IN
        /\ req' = [NoReq EXCEPT !.op = "create_access_token", !.data = data,
                      !.expires_delta = expires_delta, !.at = now]
        /\ resp' = [NoResp EXCEPT !.status = 200,
                       !.token = <<Token(r.token, "")>>, !.data = r.data]
        /\ UNCHANGED <<users, posts, now, inflight>>

(* the tokens a client can present: any string, or one it was handed *)
Presentable ==
    PresentedTokens
        \cup {resp.token[i].access_token : i \in 1..Len(resp.token)}
        \cup (IF req.op = "verify_token" THEN {req.token} ELSE {})

Authenticate ==
    \E token \in Presentable :
        LET r == verify_token(token, now) IN
        /\ req' = [NoReq EXCEPT !.op = "verify_token", !.token = token,
                      !.at = now]
        /\ resp' = [NoResp EXCEPT !.status = r.status, !.detail = r.detail,
                       !.name = r.name]
        /\ UNCHANGED <<users, posts, now, inflight>>

----------------------------------------------------------------------------

(* The HTTP service: every route of app/main.py *)
Next ==
    \/ create_user
    \/ create_post
    \/ register_users
    \/ login_token
    \/ get_posts
    \/ get_users
    \/ users_id
    \/ seak_post_id_user

Spec == Init /\ [][Next]_vars

(* The authentication functions of app/auth.py, called as time passes and  *)
(* as the user store changes                                               *)
NextAuth ==
    \/ Tick
    \/ Encode
    \/ Authenticate
    \/ create_user

SpecAuth == Init /\ [][NextAuth]_vars

----------------------------------------------------------------------------
(* Properties of Authenticate (verify_token), under SpecAuth *)

SignatureVerifies(token) ==
    /\ token.wellformed
    /\ token.alg = ALGORITHM
    /\ token.key = SECRET_KEY
    /\ token.intact

(* C1: Authenticate accepts a token only if its signature verifies under   *)
(* the configured secret and algorithm and the clock reading is strictly   *)
(* before the token's exp claim.                                           *)
C1_AcceptedOnlyIfSignedAndBeforeExp ==
    (req.op = "verify_token" /\ resp.status = 200) =>
        /\ SignatureVerifies(req.token)
        /\ req.token.claims.exp.type = "int"
        /\ req.at < req.token.claims.exp.n

(* C6: Authenticate has exactly two outcomes: Unauthorized (401) when      *)
(* decoding fails or the claims have no sub, otherwise the Subject         *)
(* Identity named by the sub claim; no token ends in an unhandled error.   *)
C6_AuthenticateTwoOutcomes ==
    (req.op = "verify_token") =>
        LET d == jwt_decode(req.token, SECRET_KEY, {ALGORITHM}, req.at) IN
        IF d.err # "" \/ d.claims.sub.type = "absent"
        THEN resp.status = 401
        ELSE resp.status = 200 /\ resp.name = d.claims.sub.s

----------------------------------------------------------------------------
(* Properties of the Token Codec (create_access_token), under SpecAuth *)

IssuedToken == resp.token[1].access_token

DecodedAtIssuance ==
    jwt_decode(IssuedToken, SECRET_KEY, {ALGORITHM}, req.at)

RoundTrips ==
    /\ DecodedAtIssuance.err = ""
    /\ \A k \in ClaimKeys \ {"exp"} : DecodedAtIssuance.claims[k] = req.data[k]
    /\ DecodedAtIssuance.claims.exp.type = "int"
    /\ DecodedAtIssuance.claims.exp.n >= req.at

(* C8 as stated: for every claims mapping c, decoding the token of         *)
(* create_access_token(c) at the time of issuance succeeds and returns c   *)
(* on every key but exp, plus an exp not before the issuance time.         *)
C8_RoundTripAllClaims ==
    (req.op = "create_access_token" /\ req.expires_delta = << >>) =>
        RoundTrips

(* C8 amended: the round trip holds for every claims mapping whose sub     *)
(* claim, when there is one, is a string.                                  *)
C8_RoundTripStringSub ==
    (/\ req.op = "create_access_token"
     /\ req.expires_delta = << >>
     /\ req.data.sub.type \in {"absent", "str"}) =>
        RoundTrips

C8_Witness ==
    /\ req.op = "create_access_token"
    /\ req.expires_delta = << >>
    /\ req.data = [sub |-> Str("Jame"), exp |-> Int_(0), role |-> Str("admin")]
    /\ req.at = 1
    /\ RoundTrips
    /\ DecodedAtIssuance.claims.exp = Int_(1 + DefaultLifetime)

(* C9: create_access_token leaves the caller's mapping as it was, and the  *)
(* token's exp is the clock reading plus expires_delta, or plus the        *)
(* default lifetime when expires_delta is None, whatever exp the caller    *)
(* supplied.                                                               *)
C9_CallerMappingUntouched ==
    (req.op = "create_access_token") =>
        /\ resp.data = req.data
        /\ IssuedToken.claims.exp =
              Int_(req.at + (IF req.expires_delta = << >>
                             THEN DefaultLifetime
                             ELSE req.expires_delta[1]))
        /\ \A k \in ClaimKeys \ {"exp"} : IssuedToken.claims[k] = req.data[k]

C9_Witness ==
    /\ req.op = "create_access_token"
    /\ req.data.exp = Int_(0)
    /\ req.expires_delta = <<1>>
    /\ req.at = 1
    /\ resp.data.exp = Int_(0)
    /\ IssuedToken.claims.exp = Int_(2)

----------------------------------------------------------------------------
(* Properties of the routes, under Spec *)

StoredNamed(name) == RowsWhere(users, "name", name)

(* C2: no two stored user records have the same name. *)
C2_UsernamesUnique ==
    \A i, j \in 1..Len(users) : i # j => users[i].name # users[j].name

(* C3: Register with a name already stored fails with 409 and leaves the   *)
(* user store unchanged; Register with a new name succeeds, adds exactly   *)
(* one record with that name and age and a new id, and returns a profile   *)
(* of id, name and age only.                                               *)
RegisterStep ==
    (req'.op = "register_users" /\ <<req, resp>>' # <<req, resp>>) =>
        IF StoredNamed(req'.name) # << >>
        THEN /\ resp'.status = 409
             /\ users' = users
        ELSE /\ resp'.status = 200
             /\ Len(users') = Len(users) + 1
             /\ SubSeq(users', 1, Len(users)) = users
             /\ users'[Len(users')].name = req'.name
             /\ users'[Len(users')].age = req'.age
             /\ \A i \in 1..Len(users) : users[i].id # users'[Len(users')].id
             /\ Len(resp'.profile) = 1
             /\ DOMAIN resp'.profile[1] = {"id", "name", "age"}
             /\ resp'.profile[1].name = req'.name

C3_RegisterContract == [][RegisterStep]_vars

(* C4: Login with the name of a stored user and the password that user was *)
(* registered with returns a bearer token whose sub is that name; Login    *)
(* with an unknown name or a password that does not match fails with 401   *)
(* and issues no token.                                                    *)
PasswordMatches(row, password) ==
    /\ "hash_password" \in DOMAIN row
    /\ verify_password(password, row["hash_password"])

C4_LoginContract ==
    (req.op = "login_token") =>
        IF /\ StoredNamed(req.name) # << >>
           /\ PasswordMatches(StoredNamed(req.name)[1], req.password)
        THEN /\ resp.status = 200
             /\ Len(resp.token) = 1
             /\ resp.token[1].token_type = "bearer"
             /\ resp.token[1].access_token.claims.sub = Str(req.name)
        ELSE /\ resp.status = 401
             /\ resp.token = << >>

(* C7: Login for a stored user whose password hash is missing ends with    *)
(* 401, never with an unhandled error.                                     *)
C7_MissingHashIsUnauthorized ==
    (/\ req.op = "login_token"
     /\ StoredNamed(req.name) # << >>
     /\ "hash_password" \notin DOMAIN StoredNamed(req.name)[1]) =>
        resp.status = 401

(* C5: a token issued by Login for a user is accepted by Authenticate as   *)
(* that user at every time before its exp.  Stated on the scenario of the  *)
(* specification: Register(u, p) for a free name, then Login(u, p), gives  *)
(* a bearer token that Authenticate resolves to u until it expires.        *)
LoginAfterRegisterStep ==
    (/\ req.op = "register_users"
     /\ resp.status # 409
     /\ req'.op = "login_token"
     /\ req'.name = req.name
     /\ req'.password = req.password) =>
        /\ resp'.status = 200
        /\ Len(resp'.token) = 1
        /\ \A t \in Times :
              t < resp'.token[1].access_token.claims.exp.n =>
                 /\ verify_token(resp'.token[1].access_token, t).status = 200
                 /\ verify_token(resp'.token[1].access_token, t).name = req.name

C5_LoginTokenLivesUntilExp == [][LoginAfterRegisterStep]_vars

(* C10: creating a post for an author_id that matches no stored user fails *)
(* with 404 "User not found" and stores nothing; for a stored user it      *)
(* stores exactly one post and returns it with its author; so every stored *)
(* post's author_id is the id of a stored user.                            *)
PostsHaveAuthors ==
    \A i \in 1..Len(posts) : RowsWhere(users, "id", posts[i].author_id) # << >>

CreatePostStep ==
    (req'.op = "create_post" /\ <<req, resp, posts>>' # <<req, resp, posts>>) =>
        IF RowsWhere(users, "id", req'.author_id) = << >>
        THEN /\ resp'.status = 404
             /\ resp'.detail = "User not found"
             /\ posts' = posts
        ELSE /\ resp'.status = 200
             /\ Len(posts') = Len(posts) + 1
             /\ SubSeq(posts', 1, Len(posts)) = posts
             /\ posts'[Len(posts')].author_id = req'.author_id
             /\ posts'[Len(posts')].title = req'.title
             /\ Len(resp'.post) = 1
             /\ resp'.post[1].id = posts'[Len(posts')].id
             /\ resp'.post[1].author_id = req'.author_id
             /\ resp'.post[1].author.id = req'.author_id

C10_PostsReferToStoredUsers ==
    /\ []PostsHaveAuthors
    /\ [][CreatePostStep]_vars

C10_Witness ==
    /\ Len(users) = 2
    /\ Len(posts) = 2
    /\ posts[2].author_id = 2
    /\ req.op = "create_post"
    /\ req.author_id = MaxUsers + 1
    /\ resp.status = 404

----------------------------------------------------------------------------
(* POST /register/ served for several requests at once: a request gives    *)
(* way to the others at its persistence calls, the lookup by name and the  *)
(* insert with its commit.                                                 *)

(* the request arrives *)
register_receive(r) ==
    \E name \in Names, age \in Ages, password \in Passwords :
        /\ inflight[r].pc = "idle"
        /\ inflight' = [inflight EXCEPT ![r] =
                           [Idle EXCEPT !.pc = "lookup", !.name = name,
                               !.age = age, !.password = password]]
        /\ UNCHANGED <<users, posts, now, req, resp>>

(* db.query(User).filter(User.name == user.name).first() *)
register_lookup(r) ==
    /\ inflight[r].pc = "lookup"
    /\ inflight' = [inflight EXCEPT ![r].pc = "insert",
                       ![r].db_user = First(RowsWhere(users, "name",
                                                      inflight[r].name))]
    /\ UNCHANGED <<users, posts, now, req, resp>>

(* the rest of register_users: the 409, or the hash, the User object and   *)
(* db.add, db.commit, db.refresh                                           *)
register_insert(r) ==
    LET user == inflight[r]
        hash_user_password == get_password_hash(user.password)
        db_user_hash == User([name |-> user.name, age |-> user.age,
                              hash_password |-> hash_user_password])
    IN
    /\ user.pc = "insert"
    /\ IF user.db_user # << >>
       THEN /\ inflight' = [inflight EXCEPT ![r].pc = "done",
                               ![r].resp = HTTPException(409, "Name Taken!")]
            /\ UNCHANGED users
       ELSE IF db_user_hash.raised
       THEN /\ inflight' = [inflight EXCEPT ![r].pc = "done",
                               ![r].resp = Unhandled("TypeError")]
            /\ UNCHANGED users
       ELSE /\ Len(users) < MaxUsers
            /\ users' = Insert(users, db_user_hash.row)
            /\ inflight' = [inflight EXCEPT ![r].pc = "done",
                               ![r].resp = [NoResp EXCEPT !.status = 200,
                                   !.profile = <<DbUser(users'[Len(users')])>>]]
    /\ UNCHANGED <<posts, now, req, resp>>

NextRace ==
    \/ \E r \in Requests : register_receive(r)
    \/ \E r \in Requests : register_lookup(r)
    \/ \E r \in Requests : register_insert(r)
    \/ create_user

SpecRace == Init /\ [][NextRace]_vars

(* C11: of two Register requests for the same name whose persistence calls *)
(* interleave in any order, at most one succeeds and stores a user and the *)
(* other fails with NameTaken (when the name was stored before, both do).  *)
C11_OneRegisterWinsOtherNameTaken ==
    \A r1, r2 \in Requests :
        (/\ r1 # r2
         /\ inflight[r1].pc = "done"
         /\ inflight[r2].pc = "done"
         /\ inflight[r1].name = inflight[r2].name) =>
            /\ ~(inflight[r1].resp.status = 200 /\ inflight[r2].resp.status = 200)
            /\ inflight[r1].resp.status = 409 \/ inflight[r2].resp.status = 409
            /\ {inflight[r1].resp.status, inflight[r2].resp.status}
                  \subseteq {200, 409}

====
